---- MODULE Spec2Model ----
(***************************************************************************)
(* Job aggregator (Google Apps Script): scrape -> processJobs ->           *)
(* appendJobs -> sendJobDigest over the Jobs sheet.                        *)
(*                                                                         *)
(* Strings are sequences of one-character strings, so that toLowerCase,    *)
(* includes and join are computed and not assumed.  An ID 'INFO-007' is    *)
(* the pair <<"INFO", 7>>.                                                 *)
(***************************************************************************)
EXTENDS Integers, Sequences, FiniteSets, TLC

VARIABLES
    jobs,           \* rows 2.. of the Jobs sheet, in sheet order
    counter,        \* script property INFO_COUNTER
    pc,             \* position of the current run of runJobSearch
    config,         \* config object of the current (or last) run
    rawJobs,        \* result of scrapeJobs in the current run
    processedJobs,  \* result of processJobs in the current run
    sentCount,      \* per row: number of sent digest emails that listed it
    runs,           \* runs of runJobSearch started so far
    last,           \* what the last step of the current run did
    calc,           \* a call of calculateScore: its arguments and its result
    load,           \* a call of getConfig: the Config tab it reads and its result
    inv,            \* two invocations of runJobSearch at once: each one's position and locals
    scrape,         \* a call of scrapeJobs on a list of sources: the list and its result
    ids             \* the calls of generateUniqueID made so far: [type, ok, id] of each

vars == <<jobs, counter, pc, config, rawJobs, processedJobs, sentCount, runs, last, calc,
          load, inv, scrape, ids>>

----------------------------------------------------------------------------
(* Bounds of the model *)

MaxRuns == 2        \* runs of runJobSearch in one behaviour of Spec
MaxBatch == 1       \* feed items scraped in one run of Spec
MaxSheet == 3       \* feed items of the run that filled the sheet in SpecDigest
MaxFilters == 3     \* filters in a list given to calculateScore

----------------------------------------------------------------------------
(* Strings *)

Undefined == <<"\\undefined">>   \* the JavaScript value undefined
Empty == <<>>                    \* the empty string ''

\* String.prototype.toLowerCase on the characters the model uses
LowerChar(c) ==
    CASE c = "A" -> "a"
      [] c = "I" -> "i"
      [] c = "D" -> "d"
      [] c = "E" -> "e"
      [] c = "J" -> "j"
      [] c = "R" -> "r"
      [] OTHER -> c

ToLowerCase(s) == [i \in 1..Len(s) |-> LowerChar(s[i])]

\* String.prototype.includes
Includes(s, sub) ==
    \E i \in 0..(Len(s) - Len(sub)) : \A j \in 1..Len(sub) : s[i + j] = sub[j]

\* `${v}` in a template literal
Str(v) == IF v = Undefined THEN <<"u","n","d","e","f","i","n","e","d">> ELSE v

\* !v for a string-or-undefined value
Falsy(v) == v = Undefined \/ v = Empty

\* Array.prototype.join(', ')
RECURSIVE Join(_)
Join(ks) ==
    IF Len(ks) = 0 THEN Empty
    ELSE IF Len(ks) = 1 THEN ks[1]
    ELSE ks[1] \o <<",", " ">> \o Join(Tail(ks))

----------------------------------------------------------------------------
(* output.gs: calculateScore *)

\* `${job.Title} ${job.Company} ${job.Location} ${job.Snippet}`.toLowerCase()
AllText(job) ==
    ToLowerCase(Str(job.Title) \o <<" ">> \o Str(job.Company) \o <<" ">>
                \o Str(job.Location) \o <<" ">> \o Str(job.Snippet))

\* a matcher that compares the keyword with the text as written
IsMatch_caseSensitive(job, filter) ==
    IF filter.Type = "title"
    THEN Includes(job.Title, filter.Keyword)
    ELSE IF filter.Type = "any" \/ filter.Type = "negative"
    THEN Includes(Str(job.Title) \o <<" ">> \o Str(job.Company) \o <<" ">>
                  \o Str(job.Location) \o <<" ">> \o Str(job.Snippet), filter.Keyword)
    ELSE FALSE

\* the isMatch of one loop iteration (job.Title is a string here)
IsMatch(job, filter) ==
    IF filter.Type = "title"
    THEN Includes(ToLowerCase(job.Title), ToLowerCase(filter.Keyword))
    ELSE IF filter.Type = "any" \/ filter.Type = "negative"
    THEN Includes(AllText(job), ToLowerCase(filter.Keyword))
    ELSE FALSE

\* a scorer that caps the running score at 3
ScoreStep_capped(acc, job, filter) ==
    IF IsMatch(job, filter)
    THEN [score |-> IF acc.score + filter.Weight > 3 THEN 3 ELSE acc.score + filter.Weight,
          matchedKeywords |-> Append(acc.matchedKeywords, filter.Keyword)]
    ELSE acc

\* a scorer that records the lowercased keyword
ScoreStep_lowercased(acc, job, filter) ==
    IF IsMatch(job, filter)
    THEN [score |-> acc.score + filter.Weight,
          matchedKeywords |-> Append(acc.matchedKeywords, ToLowerCase(filter.Keyword))]
    ELSE acc

\* one iteration of the for loop over filters
ScoreStep(acc, job, filter) ==
    IF IsMatch(job, filter)
    THEN [score |-> acc.score + filter.Weight,
          matchedKeywords |-> Append(acc.matchedKeywords, filter.Keyword)]
    ELSE acc

RECURSIVE ScoreLoop(_, _, _, _)
ScoreLoop(job, filters, i, acc) ==
    IF i > Len(filters) THEN acc
    ELSE ScoreLoop(job, filters, i + 1, ScoreStep(acc, job, filters[i]))

\* filter.Type === 'title': job.Title.toLowerCase() throws a TypeError on an undefined Title
TitleThrows(job, filters) ==
    job.Title = Undefined /\ \E i \in 1..Len(filters) : filters[i].Type = "title"

\* the argument check !job: an absent job is the record NoJob
NoJob == [undefined |-> TRUE]

\* the argument check !filters: an absent filter list is the list NoFilters,
\* which holds no filter but the absent record
NoFilters == <<NoJob>>

Absent(filters) == Len(filters) = 1 /\ DOMAIN filters[1] = DOMAIN NoJob

\* a scorer that returns score 0 for an absent argument
calculateScore_lenient(job, filters) ==
    IF DOMAIN job = DOMAIN NoJob \/ Absent(filters)
    THEN [threw |-> FALSE, score |-> 0, matchedKeywords |-> <<>>]
    ELSE IF TitleThrows(job, filters)
    THEN [threw |-> TRUE, score |-> 0, matchedKeywords |-> <<>>]
    ELSE LET r == ScoreLoop(job, filters, 1, [score |-> 0, matchedKeywords |-> <<>>])
         IN [threw |-> FALSE, score |-> r.score, matchedKeywords |-> r.matchedKeywords]

calculateScore(job, filters) ==
    IF DOMAIN job = DOMAIN NoJob \/ Absent(filters) \/ TitleThrows(job, filters)
    THEN [threw |-> TRUE, score |-> 0, matchedKeywords |-> <<>>]
    ELSE LET r == ScoreLoop(job, filters, 1, [score |-> 0, matchedKeywords |-> <<>>])
         IN [threw |-> FALSE, score |-> r.score, matchedKeywords |-> r.matchedKeywords]

----------------------------------------------------------------------------
(* utils.gs: generateUniqueID.  Only the INFO counter is tracked; ok is     *)
(* whether the script-properties calls succeed; the catch returns INFO-000. *)

UndefinedType == "\\undefined"

SafeType(type) == IF type = UndefinedType \/ type = "" THEN "INFO" ELSE type

generateUniqueID(type, cnt, ok) ==
    IF ok
    THEN [id |-> <<SafeType(type), cnt + 1>>, counter |-> cnt + 1]
    ELSE [id |-> <<"INFO", 0>>, counter |-> cnt]

----------------------------------------------------------------------------
(* output.gs: processJobs *)

Today == "2025-09-13"     \* formatDate(new Date(), 'yyyy-MM-dd')

\* a formatter that keeps the snippet of the raw listing
ProcessedJob_rawSnippet(job, id, res, cfg) ==
    [ID |-> id,
     DateFound |-> job.DateFound,
     Title |-> job.Title,
     Company |-> IF Falsy(job.Company) THEN Empty ELSE job.Company,
     Location |-> IF Falsy(job.Location) THEN Empty ELSE job.Location,
     Link |-> job.Link,
     Source |-> job.Source,
     Snippet |-> job.Snippet,
     Score |-> res.score,
     MatchedKeywords |-> Join(res.matchedKeywords),
     Status |-> IF res.score >= cfg.minScore THEN "New" ELSE "Ignore",
     DateNotified |-> ""]

\* the object literal of lines 50-63
ProcessedJob(job, id, res, cfg) ==
    [ID |-> id,
     DateFound |-> job.DateFound,
     Title |-> job.Title,
     Company |-> IF Falsy(job.Company) THEN Empty ELSE job.Company,
     Location |-> IF Falsy(job.Location) THEN Empty ELSE job.Location,
     Link |-> job.Link,
     Source |-> job.Source,
     Snippet |-> job.Title \o <<" ">> \o <<"f","r","o","m">> \o <<" ">> \o job.Source,
     Score |-> res.score,
     MatchedKeywords |-> Join(res.matchedKeywords),
     Status |-> IF res.score >= cfg.minScore THEN "New" ELSE "Ignore",
     DateNotified |-> ""]

\* a loop body without the duplicate test
ProcessStep_noDedup(st, job, filters, cfg, ok) ==
    IF st.threw THEN st
    ELSE IF Falsy(job.Title) \/ Falsy(job.Link) \/ Falsy(job.Source) THEN st
    ELSE LET res == calculateScore(job, filters)
             gen == IF Falsy(job.ID)
                    THEN generateUniqueID(UndefinedType, st.counter, ok)
                    ELSE [id |-> job.ID, counter |-> st.counter]
         IN IF res.threw
            THEN [st EXCEPT !.threw = TRUE, !.seenLinks = @ \cup {job.Link}]
            ELSE [st EXCEPT !.seenLinks = @ \cup {job.Link},
                            !.counter = gen.counter,
                            !.jobs = Append(@, ProcessedJob(job, gen.id, res, cfg))]

\* a loop body that records the Link of a listing before it validates it
ProcessStep_marksInvalid(st, job, filters, cfg, ok) ==
    IF st.threw THEN st
    ELSE IF cfg.dedupeBy = "link" /\ job.Link \in st.seenLinks THEN st
    ELSE IF Falsy(job.Title) \/ Falsy(job.Link) \/ Falsy(job.Source)
    THEN [st EXCEPT !.seenLinks = @ \cup {job.Link}]
    ELSE LET res == calculateScore(job, filters)
             gen == IF Falsy(job.ID)
                    THEN generateUniqueID(UndefinedType, st.counter, ok)
                    ELSE [id |-> job.ID, counter |-> st.counter]
         IN IF res.threw
            THEN [st EXCEPT !.threw = TRUE, !.seenLinks = @ \cup {job.Link}]
            ELSE [st EXCEPT !.seenLinks = @ \cup {job.Link},
                            !.counter = gen.counter,
                            !.jobs = Append(@, ProcessedJob(job, gen.id, res, cfg))]

\* one iteration of the for loop over rawJobs; st is the loop's state
ProcessStep(st, job, filters, cfg, ok) ==
    IF st.threw THEN st
    ELSE IF Falsy(job.Title) \/ Falsy(job.Link) \/ Falsy(job.Source) THEN st
    ELSE IF cfg.dedupeBy = "link" /\ job.Link \in st.seenLinks THEN st
    ELSE LET res == calculateScore(job, filters)
             gen == IF Falsy(job.ID)
                    THEN generateUniqueID(UndefinedType, st.counter, ok)
                    ELSE [id |-> job.ID, counter |-> st.counter]
         IN IF res.threw
            THEN [st EXCEPT !.threw = TRUE, !.seenLinks = @ \cup {job.Link}]
            ELSE [st EXCEPT !.seenLinks = @ \cup {job.Link},
                            !.counter = gen.counter,
                            !.jobs = Append(@, ProcessedJob(job, gen.id, res, cfg))]

RECURSIVE ProcessLoop(_, _, _, _, _, _)
ProcessLoop(raw, filters, cfg, oks, i, st) ==
    IF i > Len(raw) THEN st
    ELSE ProcessLoop(raw, filters, cfg, oks, i + 1,
                     ProcessStep(st, raw[i], filters, cfg, oks[i]))

\* !config.minScore || !config.dedupeBy
MissingConfig(cfg) == cfg.minScore = 0 \/ cfg.dedupeBy = ""

\* returns [threw, jobs, counter]; oks[i] is whether generateUniqueID works for job i
processJobs(raw, filters, cfg, oks, cnt) ==
    IF MissingConfig(cfg)
    THEN [threw |-> TRUE, jobs |-> <<>>, counter |-> cnt]
    ELSE LET st == ProcessLoop(raw, filters, cfg, oks, 1,
                      [threw |-> FALSE, jobs |-> <<>>, seenLinks |-> {}, counter |-> cnt])
         IN [threw |-> st.threw, jobs |-> IF st.threw THEN <<>> ELSE st.jobs,
             counter |-> st.counter]

----------------------------------------------------------------------------
(* appending.gs: getExistingLinks, appendJobs *)

Http == <<"h","t","t","p">>

\* new Set(links.filter(link => link && typeof link === 'string' && link.includes('http')))
getExistingLinks(rows) ==
    {rows[i].Link : i \in {k \in 1..Len(rows) :
                              ~Falsy(rows[k].Link) /\ Includes(rows[k].Link, Http)}}

\* the required-fields test of line 49
MissingFields(job) ==
    \/ Falsy(job.ID) \/ job.DateFound = "" \/ Falsy(job.Title) \/ Falsy(job.Link)
    \/ Falsy(job.Source) \/ Falsy(job.Snippet) \/ Falsy(job.MatchedKeywords)
    \/ job.Status = ""

ValidStatus == {"New", "Ignore", "Applied", "Interviewing", "Rejected"}

\* one iteration of the for loop over processedJobs
AppendStep(st, job, existingLinks) ==
    IF MissingFields(job) THEN st
    ELSE IF job.Link \in existingLinks \/ job.Link \in st.seenLinksInBatch THEN st
    ELSE [seenLinksInBatch |-> st.seenLinksInBatch \cup {job.Link},
          jobsToAppend |-> Append(st.jobsToAppend,
              IF job.Status \in ValidStatus THEN job ELSE [job EXCEPT !.Status = "Ignore"])]

RECURSIVE AppendLoop(_, _, _, _)
AppendLoop(processed, existingLinks, i, st) ==
    IF i > Len(processed) THEN st
    ELSE AppendLoop(processed, existingLinks, i + 1,
                    AppendStep(st, processed[i], existingLinks))

\* an append that reports the size of the batch it was given
appendJobs_countsAll(rows, processed, cfg, writeOk) ==
    IF MissingConfig(cfg) \/ cfg.dedupeBy # "link"
    THEN [threw |-> TRUE, rows |-> rows, appendedCount |-> 0]
    ELSE LET st == AppendLoop(processed, getExistingLinks(rows), 1,
                      [seenLinksInBatch |-> {}, jobsToAppend |-> <<>>])
         IN IF Len(st.jobsToAppend) > 0
            THEN IF writeOk
                 THEN [threw |-> FALSE, rows |-> rows \o st.jobsToAppend,
                       appendedCount |-> Len(processed)]
                 ELSE [threw |-> TRUE, rows |-> rows, appendedCount |-> 0]
            ELSE [threw |-> FALSE, rows |-> rows, appendedCount |-> Len(processed)]

\* returns [threw, rows, appendedCount]; writeOk is whether range.setValues succeeds
appendJobs(rows, processed, cfg, writeOk) ==
    IF MissingConfig(cfg) \/ cfg.dedupeBy # "link"
    THEN [threw |-> TRUE, rows |-> rows, appendedCount |-> 0]
    ELSE LET st == AppendLoop(processed, getExistingLinks(rows), 1,
                      [seenLinksInBatch |-> {}, jobsToAppend |-> <<>>])
         IN IF Len(st.jobsToAppend) > 0
            THEN IF writeOk
                 THEN [threw |-> FALSE, rows |-> rows \o st.jobsToAppend,
                       appendedCount |-> Len(st.jobsToAppend)]
                 ELSE [threw |-> TRUE, rows |-> rows, appendedCount |-> 0]
            ELSE [threw |-> FALSE, rows |-> rows, appendedCount |-> 0]

----------------------------------------------------------------------------
(* email.js: sendJobDigest, updateNotifiedJobs.  A selection is a sequence   *)
(* of row indexes (row i of the model is sheet row i + 1).                   *)

\* the filter predicate of lines 58-62 with the Status test left out
IsEligible_anyStatus(job, cfg) ==
    job.Score >= cfg.minScore /\ job.DateNotified = ""

\* the filter predicate of lines 58-62
IsEligible(job, cfg) ==
    job.Status = "New" /\ job.Score >= cfg.minScore /\ job.DateNotified = ""

RECURSIVE FilterEligible(_, _, _)
FilterEligible(rows, cfg, i) ==
    IF i > Len(rows) THEN <<>>
    ELSE (IF IsEligible(rows[i], cfg) THEN <<i>> ELSE <<>>) \o FilterEligible(rows, cfg, i + 1)

\* a comparator sorting by ascending score
Compare_ascending(a, b) == a.Score - b.Score

\* the comparator (a, b) => b.Score - a.Score
Compare(a, b) == b.Score - a.Score

\* stable insertion of index x into the sorted sequence s (Array.prototype.sort is stable)
RECURSIVE InsertSorted(_, _, _)
InsertSorted(rows, s, x) ==
    IF Len(s) = 0 THEN <<x>>
    ELSE IF Compare(rows[Head(s)], rows[x]) > 0
         THEN <<x>> \o s
         ELSE <<Head(s)>> \o InsertSorted(rows, Tail(s), x)

RECURSIVE Sort(_, _, _)
Sort(rows, s, acc) ==
    IF Len(s) = 0 THEN acc
    ELSE Sort(rows, Tail(s), InsertSorted(rows, acc, Head(s)))

\* Array.prototype.slice(0, end) for an integer end
Slice(s, end) ==
    LET k == IF end < 0 THEN (IF Len(s) + end < 0 THEN 0 ELSE Len(s) + end)
             ELSE IF end > Len(s) THEN Len(s) ELSE end
    IN SubSeq(s, 1, k)

\* eligibleJobs of lines 58-62
EligibleJobs(rows, cfg) == Slice(Sort(rows, FilterEligible(rows, cfg, 1), <<>>), cfg.topN)

\* the rows buildHtmlTable puts in the email (it skips a job without Title or Link)
TableRows(rows, sel) ==
    SelectSeq(sel, LAMBDA i : ~Falsy(rows[i].Title) /\ ~Falsy(rows[i].Link))

\* the cell writes of the loop of lines 201-208, in order
RECURSIVE CellWrites(_, _, _)
CellWrites(rows, emailedIDs, i) ==
    IF i > Len(rows) THEN <<>>
    ELSE (IF rows[i].ID \in emailedIDs
          THEN <<[row |-> i, col |-> "Status"], [row |-> i, col |-> "DateNotified"]>>
          ELSE <<>>) \o CellWrites(rows, emailedIDs, i + 1)

ApplyWrite(rows, w) ==
    IF w.col = "Status" THEN [rows EXCEPT ![w.row].Status = "Notified"]
    ELSE [rows EXCEPT ![w.row].DateNotified = Today]

RECURSIVE ApplyWrites(_, _, _)
ApplyWrites(rows, ws, n) ==
    IF n = 0 \/ Len(ws) = 0 THEN rows
    ELSE ApplyWrites(ApplyWrite(rows, Head(ws)), Tail(ws), n - 1)

\* returns [threw, rows, updatedCount]; the setValue call number failAt + 1 throws
\* (none throws when failAt is not less than the number of calls)
updateNotifiedJobs(rows, emailedIDs, failAt) ==
    LET ws == CellWrites(rows, emailedIDs, 1)
    IN IF failAt < Len(ws)
       THEN [threw |-> TRUE, rows |-> ApplyWrites(rows, ws, failAt), updatedCount |-> 0]
       ELSE [threw |-> FALSE, rows |-> ApplyWrites(rows, ws, Len(ws)),
             updatedCount |-> Len(ws) \div 2]

\* !config.emailRecipient || !config.topN || !config.coverLetterDocId
MissingDigestConfig(cfg) ==
    cfg.emailRecipient = "" \/ cfg.topN = 0 \/ cfg.coverLetterDocId = ""

NoDigest(rows, threw) ==
    [threw |-> threw, rows |-> rows, sent |-> FALSE, selected |-> <<>>,
     listed |-> <<>>, emailed |-> 0]

\* a digest step that marks the rows before it sends the email
sendJobDigest_markFirst(rows, cfg, sendOk, failAt) ==
    IF MissingDigestConfig(cfg) THEN NoDigest(rows, TRUE)
    ELSE IF Len(rows) = 0 THEN NoDigest(rows, FALSE)
    ELSE LET sel == EligibleJobs(rows, cfg)
             upd == updateNotifiedJobs(rows, {rows[sel[k]].ID : k \in 1..Len(sel)}, failAt)
         IN IF Len(sel) = 0 THEN NoDigest(rows, FALSE)
            ELSE IF upd.threw \/ ~sendOk
            THEN [NoDigest(upd.rows, TRUE) EXCEPT !.selected = sel]
            ELSE [threw |-> FALSE, rows |-> upd.rows, sent |-> TRUE, selected |-> sel,
                  listed |-> TableRows(rows, sel), emailed |-> Len(sel)]

\* returns [threw, rows, sent, selected, listed, emailed]: sendOk is whether
\* GmailApp.sendEmail returns, failAt the failing cell write of updateNotifiedJobs
sendJobDigest(rows, cfg, sendOk, failAt) ==
    IF MissingDigestConfig(cfg) THEN NoDigest(rows, TRUE)
    ELSE IF Len(rows) = 0 THEN NoDigest(rows, FALSE)
    ELSE LET sel == EligibleJobs(rows, cfg)
         IN IF Len(sel) = 0 THEN NoDigest(rows, FALSE)
            ELSE IF ~sendOk THEN [NoDigest(rows, TRUE) EXCEPT !.selected = sel]
            ELSE LET upd == updateNotifiedJobs(rows,
                               {rows[sel[k]].ID : k \in 1..Len(sel)}, failAt)
                 IN [threw |-> upd.threw, rows |-> upd.rows, sent |-> TRUE,
                     selected |-> sel, listed |-> TableRows(rows, sel),
                     emailed |-> IF upd.threw THEN 0 ELSE Len(sel)]

----------------------------------------------------------------------------
(* The sheet's Filters and Config tabs and the feeds *)

\* getActiveFilters: {Keyword, Weight, Type} of the active rows of the Filters tab
ActiveFilters ==
    << [Keyword |-> <<"A","I">>, Weight |-> 2, Type |-> "title"],
       [Keyword |-> <<"D","E">>, Weight |-> 1, Type |-> "any"],
       [Keyword |-> <<"J","r">>, Weight |-> -3, Type |-> "negative"] >>

\* an item as fetchSingleRSS builds it, before its ID is generated
Item(title, location, link) ==
    [DateFound |-> Today, Title |-> title, Company |-> Empty, Location |-> location,
     Link |-> link, Source |-> <<"s">>, Snippet |-> Empty]

LinkA == <<"h","t","t","p",":","a">>
LinkB == <<"h","t","t","p",":","b">>
LinkC == <<"f","t","p",":","c">>

FeedItems ==
    { Item(<<"A","I">>, <<"d","e">>, LinkA),     \* score 3
      Item(<<"A","i">>, Empty, LinkB),           \* score 2
      Item(<<"r","a","i","d">>, Empty, LinkC),   \* score 2, a link without 'http'
      Item(<<"o","p","s">>, Empty, LinkA) }      \* matches no filter

FeedBatches == UNION {[1..n -> FeedItems] : n \in 0..MaxBatch}

\* a cell of the Value column: empty, a number, or a text that is no number
EmptyCell == [kind |-> "empty", n |-> 0]
TextCell == [kind |-> "text", n |-> 0]
NumberCell(k) == [kind |-> "number", n |-> k]

\* the strings of the model that contain '@'
WithAt == {"a@b"}

\* the Config tab as the settings getConfig reads; '' is an empty Value cell
NoTab == [emailRecipient |-> "", minScore |-> EmptyCell, topN |-> EmptyCell,
          dedupeBy |-> "", dateFormat |-> "", coverLetterDocId |-> ""]

\* returns [threw, config]: a setting with an empty Value is skipped, the five
\* required ones must be there, Number() of a text that is no number is NaN
getConfig(tab) ==
    IF \/ tab.emailRecipient = "" \/ tab.minScore.kind = "empty" \/ tab.topN.kind = "empty"
       \/ tab.dedupeBy = "" \/ tab.dateFormat = ""
       \/ tab.minScore.kind = "text" \/ tab.topN.kind = "text"
       \/ tab.emailRecipient \notin WithAt
       \/ tab.dedupeBy # "link"
       \/ tab.dateFormat # "yyyy-MM-dd"
    THEN [threw |-> TRUE, config |-> NoTab]
    ELSE [threw |-> FALSE,
          config |-> [emailRecipient |-> tab.emailRecipient, minScore |-> tab.minScore.n,
                      topN |-> tab.topN.n, dedupeBy |-> tab.dedupeBy,
                      dateFormat |-> tab.dateFormat,
                      coverLetterDocId |-> tab.coverLetterDocId]]

\* config objects getConfig can return (minScore and topN are any numbers)
Config(minScore, topN, doc) ==
    [emailRecipient |-> "a@b", minScore |-> minScore, topN |-> topN,
     dedupeBy |-> "link", dateFormat |-> "yyyy-MM-dd", coverLetterDocId |-> doc]

Configs ==
    { Config(1, 2, "doc"), Config(3, 1, "doc"), Config(1, -1, "doc"),
      Config(0, 2, "doc"), Config(1, 0, "doc") }

----------------------------------------------------------------------------
(* scraper.gs: the items of the fetched feeds get their IDs *)

RECURSIVE ScrapeLoop(_, _, _, _)
ScrapeLoop(feed, oks, i, st) ==
    IF i > Len(feed) THEN st
    ELSE LET gen == generateUniqueID("INFO", st.counter, oks[i])
             it == feed[i]
         IN ScrapeLoop(feed, oks, i + 1,
                [jobs |-> Append(st.jobs,
                     [ID |-> gen.id, DateFound |-> it.DateFound, Title |-> it.Title,
                      Company |-> it.Company, Location |-> it.Location, Link |-> it.Link,
                      Source |-> it.Source, Snippet |-> it.Snippet]),
                 counter |-> gen.counter])

scrapeJobs(feed, oks, cnt) == ScrapeLoop(feed, oks, 1, [jobs |-> <<>>, counter |-> cnt])

\* fetchSingleRSS on one source: returns [threw, jobs, counter].  A source is
\* [SourceName, URL, items, fetchOk]: items are the <item> elements of its
\* feed, fetchOk is whether the fetch returns 200 and the XML parses to a channel
RECURSIVE ItemLoop(_, _, _, _)
ItemLoop(source, items, i, st) ==
    IF i > Len(items) THEN st
    ELSE IF Falsy(items[i].link) THEN ItemLoop(source, items, i + 1, st)
    ELSE LET gen == generateUniqueID("INFO", st.counter, TRUE)
         IN ItemLoop(source, items, i + 1,
                [jobs |-> Append(st.jobs,
                     [ID |-> gen.id, DateFound |-> Today,
                      Title |-> IF Falsy(items[i].title)
                                THEN <<"U","n","k","n","o","w","n"," ","T","i","t","l","e">>
                                ELSE items[i].title,
                      Company |-> Empty, Location |-> Empty, Link |-> items[i].link,
                      Source |-> source.SourceName, Snippet |-> Empty]),
                 counter |-> gen.counter])

fetchSingleRSS(source, cnt) ==
    IF Falsy(source.URL) \/ Falsy(source.SourceName) \/ ~source.fetchOk
    THEN [threw |-> TRUE, jobs |-> <<>>, counter |-> cnt]
    ELSE LET st == ItemLoop(source, source.items, 1, [jobs |-> <<>>, counter |-> cnt])
         IN [threw |-> FALSE, jobs |-> st.jobs, counter |-> st.counter]

\* a loop over the sources that stops at the first source that fails
RECURSIVE ScrapeSourcesLoop_break(_, _, _)
ScrapeSourcesLoop_break(sources, i, st) ==
    IF i > Len(sources) THEN st
    ELSE IF Falsy(sources[i].SourceName) \/ Falsy(sources[i].URL)
    THEN ScrapeSourcesLoop_break(sources, i + 1, st)
    ELSE LET r == fetchSingleRSS(sources[i], st.counter)
         IN IF r.threw THEN [st EXCEPT !.events = Append(st.events, "fetch")]
            ELSE ScrapeSourcesLoop_break(sources, i + 1,
                    [jobs |-> st.jobs \o r.jobs, counter |-> r.counter,
                     events |-> st.events \o <<"fetch", "sleep">>])

\* the for loop of scrapeJobs over the sources; events are the calls of
\* fetchSingleRSS ("fetch") and of Utilities.sleep ("sleep") in order
RECURSIVE ScrapeSourcesLoop(_, _, _)
ScrapeSourcesLoop(sources, i, st) ==
    IF i > Len(sources) THEN st
    ELSE IF Falsy(sources[i].SourceName) \/ Falsy(sources[i].URL)
    THEN ScrapeSourcesLoop(sources, i + 1, st)
    ELSE LET r == fetchSingleRSS(sources[i], st.counter)
         IN IF r.threw
            THEN ScrapeSourcesLoop(sources, i + 1,
                    [st EXCEPT !.events = Append(st.events, "fetch")])
            ELSE ScrapeSourcesLoop(sources, i + 1,
                    [jobs |-> st.jobs \o r.jobs, counter |-> r.counter,
                     events |-> st.events \o <<"fetch", "sleep">>])

\* scrapeJobs on a list of sources: returns [threw, jobs, counter, events]
scrapeSources(sources, cnt) ==
    IF Len(sources) = 0
    THEN [threw |-> TRUE, jobs |-> <<>>, counter |-> cnt, events |-> <<>>]
    ELSE LET st == ScrapeSourcesLoop(sources, 1,
                      [jobs |-> <<>>, counter |-> cnt, events |-> <<>>])
         IN [threw |-> FALSE, jobs |-> st.jobs, counter |-> st.counter,
             events |-> st.events]

----------------------------------------------------------------------------
(* main.gs: runJobSearch, one action per stage *)

AllOk(n) == [i \in 1..n |-> TRUE]

NoResult == [count |-> 0, sent |-> FALSE, selected |-> <<>>, listed |-> <<>>]

Step(op, threw, before, res) ==
    [op |-> op, threw |-> threw, before |-> before, count |-> res.count,
     sent |-> res.sent, selected |-> res.selected, listed |-> res.listed]

NoStep == Step("none", FALSE, <<>>, NoResult)

NoConfig == Config(0, 0, "")

NoCalc == [stage |-> "none", job |-> NoJob, filters |-> <<>>,
           result |-> [threw |-> FALSE, score |-> 0, matchedKeywords |-> <<>>]]

NoLoad == [stage |-> "none", tab |-> NoTab, result |-> [threw |-> FALSE, config |-> NoTab]]

NoLocals == [pc |-> "idle", processedJobs |-> <<>>, existingLinks |-> {}, eligibleJobs |-> <<>>]

NoInv == [p \in 1..2 |-> NoLocals]

NoScrape == [stage |-> "none", sources |-> <<>>,
             result |-> [threw |-> FALSE, jobs |-> <<>>, counter |-> 0, events |-> <<>>]]

Init ==
    /\ jobs = <<>>
    /\ counter = 0
    /\ pc = "idle"
    /\ config = NoConfig
    /\ rawJobs = <<>>
    /\ processedJobs = <<>>
    /\ sentCount = <<>>
    /\ runs = 0
    /\ last = NoStep
    /\ calc = NoCalc
    /\ load = NoLoad
    /\ inv = NoInv
    /\ scrape = NoScrape
    /\ ids = <<>>

\* getConfig, getActiveSources, getActiveFilters, scrapeJobs
ScrapeJobs ==
    /\ pc = "idle"
    /\ runs < MaxRuns
    /\ \E cfg \in Configs, feed \in FeedBatches :
         \E oks \in [1..Len(feed) -> BOOLEAN] :
            LET sc == scrapeJobs(feed, oks, counter)
            IN /\ config' = cfg
               /\ rawJobs' = sc.jobs
               /\ counter' = sc.counter
    /\ pc' = "scraped"
    /\ runs' = runs + 1
    /\ last' = Step("scrapeJobs", FALSE, jobs, NoResult)
    /\ UNCHANGED <<jobs, processedJobs, sentCount, calc, load, inv, scrape, ids>>

ProcessJobs ==
    /\ pc = "scraped"
    /\ \E oks \in [1..Len(rawJobs) -> BOOLEAN] :
         LET res == processJobs(rawJobs, ActiveFilters, config, oks, counter)
         IN /\ processedJobs' = res.jobs
            /\ counter' = res.counter
            /\ pc' = IF res.threw THEN "done" ELSE "processed"
            /\ last' = Step("processJobs", res.threw, jobs, NoResult)
    /\ UNCHANGED <<jobs, config, rawJobs, sentCount, runs, calc, load, inv, scrape, ids>>

\* a caller that goes on to the digest whatever appendJobs did
AppendJobs_continues ==
    /\ pc = "processed"
    /\ \E writeOk \in BOOLEAN :
         LET res == appendJobs(jobs, processedJobs, config, writeOk)
         IN /\ jobs' = res.rows
            /\ sentCount' = sentCount \o [i \in 1..(Len(res.rows) - Len(jobs)) |-> 0]
            /\ pc' = "appended"
            /\ last' = Step("appendJobs", res.threw, jobs,
                            [NoResult EXCEPT !.count = res.appendedCount])
    /\ UNCHANGED <<counter, config, rawJobs, processedJobs, runs, calc, load, inv, scrape, ids>>

AppendJobs ==
    /\ pc = "processed"
    /\ \E writeOk \in BOOLEAN :
         LET res == appendJobs(jobs, processedJobs, config, writeOk)
         IN /\ jobs' = res.rows
            /\ sentCount' = sentCount \o [i \in 1..(Len(res.rows) - Len(jobs)) |-> 0]
            /\ pc' = IF res.threw THEN "done" ELSE "appended"
            /\ last' = Step("appendJobs", res.threw, jobs,
                            [NoResult EXCEPT !.count = res.appendedCount])
    /\ UNCHANGED <<counter, config, rawJobs, processedJobs, runs, calc, load, inv, scrape, ids>>

SendJobDigest ==
    /\ pc = "appended"
    /\ \E sendOk \in BOOLEAN, failAt \in 0..(2 * Len(jobs)) :
         LET res == sendJobDigest(jobs, config, sendOk, failAt)
         IN /\ jobs' = res.rows
            /\ sentCount' = [i \in 1..Len(jobs) |->
                               IF res.sent /\ \E k \in 1..Len(res.listed) : res.listed[k] = i
                               THEN sentCount[i] + 1 ELSE sentCount[i]]
            /\ last' = Step("sendJobDigest", res.threw, jobs,
                            [count |-> res.emailed, sent |-> res.sent,
                             selected |-> res.selected, listed |-> res.listed])
    /\ pc' = "done"
    /\ UNCHANGED <<counter, config, rawJobs, processedJobs, runs, calc, load, inv, scrape, ids>>

\* runJobSearch returns or rethrows: its locals are gone
EndRun ==
    /\ pc = "done"
    /\ pc' = "idle"
    /\ config' = NoConfig
    /\ rawJobs' = <<>>
    /\ processedJobs' = <<>>
    /\ last' = NoStep
    /\ UNCHANGED <<jobs, counter, sentCount, runs, calc, load, inv, scrape, ids>>

Next == ScrapeJobs \/ ProcessJobs \/ AppendJobs \/ SendJobDigest \/ EndRun

Spec == Init /\ [][Next]_vars

----------------------------------------------------------------------------
(* SpecDigest: the digest step of a run, on every sheet that one earlier    *)
(* run of runJobSearch over a feed of up to MaxSheet items can leave.       *)

SheetFeeds == UNION {[1..n -> FeedItems] : n \in 0..MaxSheet}

\* the sheet after runJobSearch on the empty sheet
FirstRun(feed, ok, cfg, sendOk, failAt) ==
    LET sc == scrapeJobs(feed, [i \in 1..Len(feed) |-> ok], 0)
        pr == processJobs(sc.jobs, ActiveFilters, cfg, AllOk(Len(feed)), sc.counter)
        ap == appendJobs(<<>>, pr.jobs, cfg, TRUE)
        dg == sendJobDigest(ap.rows, cfg, sendOk, failAt)
    IN [rows |-> dg.rows, counter |-> sc.counter,
        sentCount |-> [i \in 1..Len(dg.rows) |->
                          IF dg.sent /\ \E k \in 1..Len(dg.listed) : dg.listed[k] = i
                          THEN 1 ELSE 0]]

InitDigest ==
    /\ \E feed \in SheetFeeds, ok \in BOOLEAN, cfg \in Configs,
          sendOk \in BOOLEAN, failAt \in 0..(2 * MaxSheet) :
         LET r == FirstRun(feed, ok, cfg, sendOk, failAt)
         IN jobs = r.rows /\ counter = r.counter /\ sentCount = r.sentCount
    /\ config \in {cfg \in Configs : ~MissingConfig(cfg)}   \* processJobs and appendJobs returned
    /\ pc = "appended"
    /\ rawJobs = <<>>
    /\ processedJobs = <<>>
    /\ runs = 0
    /\ last = Step("appendJobs", FALSE, jobs, NoResult)
    /\ calc = NoCalc
    /\ load = NoLoad
    /\ inv = NoInv
    /\ scrape = NoScrape
    /\ ids = <<>>

NextDigest == SendJobDigest \/ EndRun

SpecDigest == InitDigest /\ [][NextDigest]_vars

----------------------------------------------------------------------------
(* SpecScore: calls of calculateScore on listings and filter lists *)

FilterPool ==
    { ActiveFilters[1], ActiveFilters[2], ActiveFilters[3],
      [Keyword |-> <<"o","p">>, Weight |-> -1, Type |-> "title"] }

FilterLists == UNION {[1..n -> FilterPool] : n \in 0..MaxFilters}

ScoreJobs ==
    FeedItems \cup { Item(<<"a","i"," ","J","R">>, <<"D","e">>, LinkB),
                     Item(<<"d","e","v","o","p","s">>, Empty, LinkC),
                     Item(<<"o","p","s"," ","j","r">>, <<"A","i">>, LinkB) }

InitScore ==
    /\ jobs = <<>>
    /\ counter = 0
    /\ pc = "idle"
    /\ config = NoConfig
    /\ rawJobs = <<>>
    /\ processedJobs = <<>>
    /\ sentCount = <<>>
    /\ runs = 0
    /\ last = NoStep
    /\ \E job \in ScoreJobs, filters \in FilterLists :
         calc = [NoCalc EXCEPT !.stage = "call", !.job = job, !.filters = filters]
    /\ load = NoLoad
    /\ inv = NoInv
    /\ scrape = NoScrape
    /\ ids = <<>>

CalculateScore ==
    /\ calc.stage = "call"
    /\ calc' = [calc EXCEPT !.stage = "returned",
                            !.result = calculateScore(calc.job, calc.filters)]
    /\ UNCHANGED <<jobs, counter, pc, config, rawJobs, processedJobs, sentCount, runs, last, load, inv, scrape, ids>>

NextScore == CalculateScore

SpecScore == InitScore /\ [][NextScore]_vars

----------------------------------------------------------------------------
(* SpecProcess: calls of processJobs on batches of raw listings, some of    *)
(* them without a Title, a Link or a Source, under every minScore           *)

MaxRaw == 3         \* listings in a batch given to processJobs

RawJob(title, location, link, source) ==
    [ID |-> <<"INFO", 1>>, DateFound |-> Today, Title |-> title, Company |-> Empty,
     Location |-> location, Link |-> link, Source |-> source, Snippet |-> Empty]

RawJobs ==
    { RawJob(<<"A","I">>, <<"d","e">>, LinkA, <<"s">>),     \* score 3
      RawJob(<<"o","p","s">>, Empty, LinkA, <<"s">>),       \* score 0, the same Link
      RawJob(<<"A","i">>, Empty, LinkB, <<"s">>),           \* score 2
      RawJob(Empty, Empty, LinkA, <<"s">>),                 \* empty Title
      RawJob(Undefined, Empty, LinkB, <<"s">>),             \* no Title
      RawJob(<<"A","i">>, Empty, Empty, <<"s">>),           \* empty Link
      RawJob(<<"A","I">>, Empty, LinkB, Empty) }            \* empty Source

RawBatches == UNION {[1..n -> RawJobs] : n \in 0..MaxRaw}

\* configs of getConfig with a negative, a zero and a positive minScore
ProcessConfigs == {Config(m, 2, "doc") : m \in -1..3}

InitProcess ==
    /\ jobs = <<>>
    /\ counter = 0
    /\ pc = "scraped"
    /\ config \in ProcessConfigs
    /\ rawJobs \in RawBatches
    /\ processedJobs = <<>>
    /\ sentCount = <<>>
    /\ runs = 0
    /\ last = Step("scrapeJobs", FALSE, jobs, NoResult)
    /\ calc = NoCalc
    /\ load = NoLoad
    /\ inv = NoInv
    /\ scrape = NoScrape
    /\ ids = <<>>

NextProcess == ProcessJobs

SpecProcess == InitProcess /\ [][NextProcess]_vars

----------------------------------------------------------------------------
(* SpecConfig: calls of getConfig on Config tabs *)

MaxNumber == 3      \* the largest number in a Value cell of the Config tab

Cells == {EmptyCell, TextCell} \cup {NumberCell(k) : k \in -1..MaxNumber}

ConfigTabs ==
    [emailRecipient : {"", "a@b", "ab"}, minScore : Cells, topN : Cells,
     dedupeBy : {"", "link", "title"}, dateFormat : {"", "yyyy-MM-dd", "dd.MM.yyyy"},
     coverLetterDocId : {"", "doc"}]

InitConfig ==
    /\ jobs = <<>>
    /\ counter = 0
    /\ pc = "idle"
    /\ config = NoConfig
    /\ rawJobs = <<>>
    /\ processedJobs = <<>>
    /\ sentCount = <<>>
    /\ runs = 0
    /\ last = NoStep
    /\ calc = NoCalc
    /\ \E tab \in ConfigTabs : load = [NoLoad EXCEPT !.stage = "call", !.tab = tab]
    /\ inv = NoInv
    /\ scrape = NoScrape
    /\ ids = <<>>

GetConfig ==
    /\ load.stage = "call"
    /\ load' = [load EXCEPT !.stage = "returned", !.result = getConfig(load.tab)]
    /\ UNCHANGED <<jobs, counter, pc, config, rawJobs, processedJobs, sentCount, runs, last,
                   calc, inv, scrape, ids>>

NextConfig == GetConfig

SpecConfig == InitConfig /\ [][NextConfig]_vars

----------------------------------------------------------------------------
(* SpecRace: two invocations of runJobSearch (the daily trigger and the     *)
(* menu item) on one spreadsheet.  Each call on the sheet is a step of its  *)
(* own; nothing fails; every Link contains 'http'.                          *)

RaceConfig == Config(1, 2, "doc")

RaceBatches == UNION {[1..n -> {it \in FeedItems : Includes(it.Link, Http)}] : n \in 0..MaxBatch}

\* getConfig .. processJobs of invocation p
RaceProcess(p) ==
    /\ inv[p].pc = "idle"
    /\ \E feed \in RaceBatches :
         LET sc == scrapeJobs(feed, AllOk(Len(feed)), counter)
             pr == processJobs(sc.jobs, ActiveFilters, RaceConfig, AllOk(Len(feed)), sc.counter)
         IN /\ counter' = pr.counter
            /\ inv' = [inv EXCEPT ![p].pc = "processed", ![p].processedJobs = pr.jobs]
    /\ UNCHANGED <<jobs, pc, config, rawJobs, processedJobs, sentCount, runs, last, calc, load, scrape, ids>>

\* appendJobs: existingLinks = getExistingLinks(jobsSheet)
RaceReadLinks(p) ==
    /\ inv[p].pc = "processed"
    /\ inv' = [inv EXCEPT ![p].pc = "read", ![p].existingLinks = getExistingLinks(jobs)]
    /\ UNCHANGED <<jobs, counter, pc, config, rawJobs, processedJobs, sentCount, runs, last,
                   calc, load, scrape, ids>>

\* appendJobs: the loop over processedJobs and range.setValues
RaceWriteRows(p) ==
    /\ inv[p].pc = "read"
    /\ LET st == AppendLoop(inv[p].processedJobs, inv[p].existingLinks, 1,
                            [seenLinksInBatch |-> {}, jobsToAppend |-> <<>>])
       IN /\ jobs' = jobs \o st.jobsToAppend
          /\ sentCount' = sentCount \o [i \in 1..Len(st.jobsToAppend) |-> 0]
    /\ inv' = [inv EXCEPT ![p].pc = "appended"]
    /\ UNCHANGED <<counter, pc, config, rawJobs, processedJobs, runs, last, calc, load, scrape, ids>>

\* sendJobDigest: the read of the Jobs tab and the selection
RaceSelect(p) ==
    /\ inv[p].pc = "appended"
    /\ LET sel == EligibleJobs(jobs, RaceConfig)
       IN inv' = [inv EXCEPT ![p].pc = IF Len(sel) = 0 THEN "done" ELSE "selected",
                             ![p].eligibleJobs = sel]
    /\ UNCHANGED <<jobs, counter, pc, config, rawJobs, processedJobs, sentCount, runs, last,
                   calc, load, scrape, ids>>

\* sendJobDigest: GmailApp.sendEmail
RaceSend(p) ==
    /\ inv[p].pc = "selected"
    /\ sentCount' = [i \in 1..Len(sentCount) |->
                       IF \E k \in 1..Len(inv[p].eligibleJobs) : inv[p].eligibleJobs[k] = i
                       THEN sentCount[i] + 1 ELSE sentCount[i]]
    /\ inv' = [inv EXCEPT ![p].pc = "sent"]
    /\ UNCHANGED <<jobs, counter, pc, config, rawJobs, processedJobs, runs, last, calc, load, scrape, ids>>

\* sendJobDigest: updateNotifiedJobs
RaceMark(p) ==
    /\ inv[p].pc = "sent"
    /\ jobs' = updateNotifiedJobs(jobs,
                  {jobs[inv[p].eligibleJobs[k]].ID : k \in 1..Len(inv[p].eligibleJobs)},
                  2 * Len(jobs)).rows
    /\ inv' = [inv EXCEPT ![p].pc = "done"]
    /\ UNCHANGED <<counter, pc, config, rawJobs, processedJobs, sentCount, runs, last, calc,
                   load, scrape, ids>>

InitRace == Init

NextRace ==
    \E p \in 1..2 :
        \/ RaceProcess(p) \/ RaceReadLinks(p) \/ RaceWriteRows(p)
        \/ RaceSelect(p) \/ RaceSend(p) \/ RaceMark(p)

SpecRace == InitRace /\ [][NextRace]_vars

----------------------------------------------------------------------------
(* SpecScrape: calls of scrapeJobs on lists of sources, some of which fail *)

MaxSources == 3     \* sources in a list given to scrapeJobs

RssItem(title, link) == [title |-> title, link |-> link]

Source(name, url, items, fetchOk) ==
    [SourceName |-> name, URL |-> url, items |-> items, fetchOk |-> fetchOk]

Feeds ==
    { <<>>,
      <<RssItem(<<"A","I">>, LinkA)>>,
      <<RssItem(Empty, LinkB), RssItem(<<"o","p","s">>, Empty)>> }

Sources ==
    {Source(<<"s">>, <<"h","t","t","p",":","u">>, items, ok) : items \in Feeds, ok \in BOOLEAN}
    \cup {Source(<<"s">>, Empty, <<RssItem(<<"A","I">>, LinkA)>>, TRUE)}

SourceLists == UNION {[1..n -> Sources] : n \in 0..MaxSources}

InitScrape ==
    /\ jobs = <<>>
    /\ counter = 0
    /\ pc = "idle"
    /\ config = NoConfig
    /\ rawJobs = <<>>
    /\ processedJobs = <<>>
    /\ sentCount = <<>>
    /\ runs = 0
    /\ last = NoStep
    /\ calc = NoCalc
    /\ load = NoLoad
    /\ inv = NoInv
    /\ \E sources \in SourceLists :
         scrape = [NoScrape EXCEPT !.stage = "call", !.sources = sources]
    /\ ids = <<>>

ScrapeSources ==
    /\ scrape.stage = "call"
    /\ scrape' = [scrape EXCEPT !.stage = "returned",
                                !.result = scrapeSources(scrape.sources, counter)]
    /\ counter' = scrape'.result.counter
    /\ UNCHANGED <<jobs, pc, config, rawJobs, processedJobs, sentCount, runs, last, calc,
                   load, inv, ids>>

NextScrape == ScrapeSources

SpecScrape == InitScrape /\ [][NextScrape]_vars

----------------------------------------------------------------------------
(* SpecScoreArgs: calls of calculateScore with an absent listing, an absent *)
(* filter list or an empty filter list                                      *)

InitScoreArgs ==
    /\ jobs = <<>>
    /\ counter = 0
    /\ pc = "idle"
    /\ config = NoConfig
    /\ rawJobs = <<>>
    /\ processedJobs = <<>>
    /\ sentCount = <<>>
    /\ runs = 0
    /\ last = NoStep
    /\ load = NoLoad
    /\ inv = NoInv
    /\ scrape = NoScrape
    /\ ids = <<>>
    /\ \E job \in ScoreJobs \cup {NoJob}, filters \in FilterLists \cup {NoFilters} :
         calc = [NoCalc EXCEPT !.stage = "call", !.job = job, !.filters = filters]

NextScoreArgs == CalculateScore

SpecScoreArgs == InitScoreArgs /\ [][NextScoreArgs]_vars

----------------------------------------------------------------------------
(* SpecId: a sequence of calls of generateUniqueID, with and without a type, *)
(* some of them failing in the script properties                            *)

MaxCalls == 3       \* calls of generateUniqueID in one behaviour of SpecId

Types == {UndefinedType, "", "INFO", "WARN"}

InitId == Init

GenerateUniqueID ==
    /\ Len(ids) < MaxCalls
    /\ \E type \in Types, ok \in BOOLEAN :
         LET r == generateUniqueID(type, counter, ok)
         IN /\ ids' = Append(ids, [type |-> type, ok |-> ok, id |-> r.id])
            /\ counter' = r.counter
    /\ UNCHANGED <<jobs, pc, config, rawJobs, processedJobs, sentCount, runs, last, calc,
                   load, inv, scrape>>

NextId == GenerateUniqueID

SpecId == InitId /\ [][NextId]_vars

----------------------------------------------------------------------------
(* The last run over a sheet whose rows are still waiting for their digest:  *)
(* an earlier runJobSearch appended them and its sendEmail failed.           *)

InitAbort ==
    /\ \E feed \in FeedBatches, ok \in BOOLEAN, cfg \in Configs :
         LET r == FirstRun(feed, ok, cfg, FALSE, 0)
         IN jobs = r.rows /\ counter = r.counter /\ sentCount = r.sentCount
    /\ pc = "idle"
    /\ config = NoConfig
    /\ rawJobs = <<>>
    /\ processedJobs = <<>>
    /\ runs = MaxRuns - 1
    /\ last = NoStep
    /\ calc = NoCalc
    /\ load = NoLoad
    /\ inv = NoInv
    /\ scrape = NoScrape
    /\ ids = <<>>

NextAbort == ScrapeJobs \/ ProcessJobs \/ AppendJobs \/ SendJobDigest \/ EndRun

SpecAbort == InitAbort /\ [][NextAbort]_vars

----------------------------------------------------------------------------
(* appendJobs on its own: any batch of processed listings, duplicates within *)
(* the batch included, over a sheet that an earlier run left.                *)

MaxProcessed == 2   \* listings in a batch given to appendJobs

\* the processed form of each feed item
ProcessedListings ==
    {processJobs(scrapeJobs(<<it>>, <<TRUE>>, 0).jobs, ActiveFilters,
                 Config(1, 2, "doc"), <<TRUE>>, 1).jobs[1] : it \in FeedItems}

ProcessedBatches == UNION {[1..n -> ProcessedListings] : n \in 0..MaxProcessed}

InitAppend ==
    /\ \E feed \in FeedBatches, cfg \in Configs :
         LET r == FirstRun(feed, TRUE, cfg, FALSE, 0)
         IN jobs = r.rows /\ counter = r.counter /\ sentCount = r.sentCount
    /\ pc = "processed"
    /\ config \in Configs
    /\ rawJobs = <<>>
    /\ processedJobs \in ProcessedBatches
    /\ runs = 0
    /\ last = Step("processJobs", FALSE, jobs, NoResult)
    /\ calc = NoCalc
    /\ load = NoLoad
    /\ inv = NoInv
    /\ scrape = NoScrape
    /\ ids = <<>>

NextAppend == AppendJobs

SpecAppend == InitAppend /\ [][NextAppend]_vars

----------------------------------------------------------------------------
(* SpecScoreAbsent: calls of calculateScore on listings some of whose        *)
(* optional fields Company, Location, Snippet are undefined                  *)

OptionalFields == {"Company", "Location", "Snippet"}

\* the listing with the fields of the set left out
Without(job, absent) ==
    [f \in DOMAIN job |-> IF f \in absent THEN Undefined ELSE job[f]]

SparseJobs ==
    {Without(job, absent) : job \in ScoreJobs, absent \in (SUBSET OptionalFields) \ {{}}}

InitScoreAbsent ==
    /\ jobs = <<>>
    /\ counter = 0
    /\ pc = "idle"
    /\ config = NoConfig
    /\ rawJobs = <<>>
    /\ processedJobs = <<>>
    /\ sentCount = <<>>
    /\ runs = 0
    /\ last = NoStep
    /\ load = NoLoad
    /\ inv = NoInv
    /\ scrape = NoScrape
    /\ ids = <<>>
    /\ \E job \in SparseJobs, filters \in FilterLists :
         calc = [NoCalc EXCEPT !.stage = "call", !.job = job, !.filters = filters]

NextScoreAbsent == CalculateScore

SpecScoreAbsent == InitScoreAbsent /\ [][NextScoreAbsent]_vars

----------------------------------------------------------------------------
(* SpecNotify: sendJobDigest called again and again on a sheet to which      *)
(* nothing is appended any more; every sendEmail and every setValue          *)
(* succeeds and topN is at least 1.  The sheet is the one an earlier run     *)
(* left whose sendEmail failed, so its rows still wait for their digest.     *)

NotifyConfigs == {cfg \in Configs : cfg.topN >= 1 /\ ~MissingDigestConfig(cfg)}

InitNotify ==
    /\ config \in NotifyConfigs
    /\ \E feed \in SheetFeeds, ok \in BOOLEAN :
         LET r == FirstRun(feed, ok, config, FALSE, 0)
         IN jobs = r.rows /\ counter = r.counter /\ sentCount = r.sentCount
    /\ pc = "idle"
    /\ rawJobs = <<>>
    /\ processedJobs = <<>>
    /\ runs = 0
    /\ last = NoStep
    /\ calc = NoCalc
    /\ load = NoLoad
    /\ inv = NoInv
    /\ scrape = NoScrape
    /\ ids = <<>>

\* one call of sendJobDigest(config) in which nothing fails
NotifyDigest ==
    /\ pc = "idle"
    /\ \E res \in {sendJobDigest(jobs, config, TRUE, 2 * Len(jobs))} :
          /\ jobs' = res.rows
          /\ sentCount' = [i \in 1..Len(jobs) |->
                             IF res.sent /\ \E k \in 1..Len(res.listed) : res.listed[k] = i
                             THEN sentCount[i] + 1 ELSE sentCount[i]]
          /\ last' = Step("sendJobDigest", res.threw, jobs,
                          [count |-> res.emailed, sent |-> res.sent,
                           selected |-> res.selected, listed |-> res.listed])
    /\ UNCHANGED <<counter, pc, config, rawJobs, processedJobs, runs, calc, load, inv,
                   scrape, ids>>

NextNotify == NotifyDigest

\* sendJobDigest is called again as long as a call changes anything
SpecNotify == InitNotify /\ [][NextNotify]_vars /\ WF_vars(NotifyDigest)

----------------------------------------------------------------------------
(* Properties *)

Links(rows) == {rows[i].Link : i \in 1..Len(rows)}

Range(s) == {s[k] : k \in 1..Len(s)}

DigestRan == last.op = "sendJobDigest"

\* the rows the digest run changed
Changed == {i \in 1..Len(jobs) : jobs[i] # last.before[i]}

\* C1: after any sequence of pipeline runs no two rows of the Jobs sheet have
\* the same Link
C1_NoDuplicateLinks ==
    \A i, j \in 1..Len(jobs) : i # j => jobs[i].Link # jobs[j].Link

\* C2: once a run has appended its batch, running processJobs and appendJobs
\* again over the same batch and the same sheet appends zero rows
C2_SecondRunAppendsNothing ==
    (pc = "appended") =>
        LET again == processJobs(rawJobs, ActiveFilters, config,
                                 AllOk(Len(rawJobs)), counter)
        IN appendJobs(jobs, again.jobs, config, TRUE).appendedCount = 0

\* C3: every listing emitted by processJobs whose Link was not in the Jobs
\* sheet is appended by appendJobs in the same run, whatever its Status and
\* whether or not it matched a filter
C3_EveryNewLinkAppended ==
    (pc = "appended" /\ last.op = "appendJobs" /\ ~last.threw) =>
        \A k \in 1..Len(processedJobs) :
            processedJobs[k].Link \notin Links(last.before) =>
                \E i \in (Len(last.before) + 1)..Len(jobs) : jobs[i] = processedJobs[k]

\* C4: when GmailApp.sendEmail throws, sendJobDigest changes no row, the
\* error reaches the caller, and the next sendJobDigest selects the same
\* candidates again
C4_FailedSendMarksNothing ==
    (DigestRan /\ ~last.sent /\ Len(last.selected) > 0) =>
        /\ last.threw
        /\ jobs = last.before
        /\ EligibleJobs(jobs, config) = last.selected

C4_Witness ==
    /\ DigestRan /\ ~last.sent /\ last.threw
    /\ Len(last.selected) > 1
    /\ \E i \in 1..Len(jobs) : i \notin Range(last.selected)

\* C5: after a digest was sent and updateNotifiedJobs returned, exactly the
\* selected rows are marked: each selected row has Status 'Notified' and
\* DateNotified set, and no other row was modified
C5_MarksExactlySelected ==
    (DigestRan /\ last.sent /\ ~last.threw) =>
        /\ \A k \in 1..Len(last.selected) :
              /\ jobs[last.selected[k]].Status = "Notified"
              /\ jobs[last.selected[k]].DateNotified = Today
        /\ Changed = Range(last.selected)

\* C6: over any sequence of runs, failed ones included, each row of the Jobs
\* sheet is listed in at most one digest that was sent
C6_AtMostOneDigest ==
    \A i \in 1..Len(sentCount) : sentCount[i] <= 1

\* C7: sendJobDigest selects only rows with Status 'New', Score >= minScore
\* and an empty DateNotified
C7_SelectsOnlyEligible ==
    DigestRan =>
        /\ Range(last.listed) \subseteq Range(last.selected)
        /\ \A k \in 1..Len(last.selected) :
              LET row == last.before[last.selected[k]]
              IN /\ row.Status = "New"
                 /\ row.Score >= config.minScore
                 /\ row.DateNotified = ""

C7_Witness ==
    /\ DigestRan /\ last.sent
    /\ \E i \in 1..Len(last.before) :
          /\ last.before[i].Status # "New"
          /\ last.before[i].Score >= config.minScore
          /\ i \notin Range(last.selected)

\* C8: a digest that was sent lists at most config.topN listings
C8_AtMostTopN ==
    (DigestRan /\ last.sent) => Len(last.listed) <= config.topN

\* the rows that C7's three conditions admit
Admitted(rows, cfg) ==
    {i \in 1..Len(rows) : /\ rows[i].Status = "New"
                          /\ rows[i].Score >= cfg.minScore
                          /\ rows[i].DateNotified = ""}

\* C9: the digest lists its rows by descending Score, rows of equal Score in
\* the order of the sheet, and no eligible row left out has a higher Score
\* than a listed one
C9_DigestOrder ==
    (DigestRan /\ last.sent) =>
        /\ \A k, l \in 1..Len(last.listed) :
              k < l =>
                 LET a == last.before[last.listed[k]]
                     b == last.before[last.listed[l]]
                 IN /\ a.Score >= b.Score
                    /\ a.Score = b.Score => last.listed[k] < last.listed[l]
        /\ \A i \in Admitted(last.before, config) \ Range(last.listed) :
              \A k \in 1..Len(last.listed) :
                 last.before[i].Score <= last.before[last.listed[k]].Score

C9_Witness ==
    /\ DigestRan /\ last.sent
    /\ Len(last.listed) > 1
    /\ last.listed[1] > last.listed[2]
    /\ Admitted(last.before, config) \ Range(last.listed) # {}

\* the sum of the Weight of the filters at the indexes in S
RECURSIVE SumWeights(_, _)
SumWeights(filters, S) ==
    IF S = {} THEN 0
    ELSE LET i == CHOOSE x \in S : TRUE
         IN filters[i].Weight + SumWeights(filters, S \ {i})

Matching(job, filters) == {i \in 1..Len(filters) : IsMatch(job, filters[i])}

\* C10: calculateScore returns the sum of the Weight of exactly the matching
\* filters, negative and zero sums included, and one more matching filter
\* changes the score by exactly its Weight
C10_ScoreIsSumOfWeights ==
    (calc.stage = "returned") =>
        /\ ~calc.result.threw
        /\ calc.result.score = SumWeights(calc.filters, Matching(calc.job, calc.filters))
        /\ \A f \in FilterPool :
              calculateScore(calc.job, Append(calc.filters, f)).score =
                 calc.result.score + (IF IsMatch(calc.job, f) THEN f.Weight ELSE 0)

C10_Witness ==
    /\ calc.stage = "returned"
    /\ calc.result.score < 0
    /\ Cardinality(Matching(calc.job, calc.filters)) > 1
    /\ Cardinality(Matching(calc.job, calc.filters)) < Len(calc.filters)

\* the pairs of an upper-case letter and its lower-case letter
CasePairs == {{"A","a"}, {"I","i"}, {"D","d"}, {"E","e"}, {"J","j"}, {"R","r"}}

SameLetter(c, d) == c = d \/ {c, d} \in CasePairs

\* sub occurs in text when case is ignored
OccursIgnoringCase(text, sub) ==
    \E i \in 0..(Len(text) - Len(sub)) : \A j \in 1..Len(sub) : SameLetter(text[i + j], sub[j])

Combined(job) ==
    job.Title \o <<" ">> \o job.Company \o <<" ">> \o job.Location \o <<" ">> \o job.Snippet

\* the filters calculateScore counted as matching, by the keywords it returned
RECURSIVE Counted(_, _, _)
Counted(job, filters, i) ==
    IF i > Len(filters) THEN <<>>
    ELSE (IF calculateScore(job, <<filters[i]>>).matchedKeywords # <<>> THEN <<i>> ELSE <<>>)
         \o Counted(job, filters, i + 1)

\* C11: a filter matches iff its Keyword, ignoring case, occurs in the Title
\* (Type 'title') or in the combined Title, Company, Location and Snippet
\* (Type 'any' or 'negative'); 'negative' matches exactly when 'any' would
C11_MatchCondition ==
    (calc.stage = "returned") =>
        \A i \in 1..Len(calc.filters) :
            LET f == calc.filters[i]
                counted == \E k \in 1..Len(Counted(calc.job, calc.filters, 1)) :
                              Counted(calc.job, calc.filters, 1)[k] = i
            IN /\ f.Type = "title" =>
                    (counted <=> OccursIgnoringCase(calc.job.Title, f.Keyword))
               /\ f.Type \in {"any", "negative"} =>
                    (counted <=> OccursIgnoringCase(Combined(calc.job), f.Keyword))
               /\ calculateScore(calc.job, <<[f EXCEPT !.Type = "negative"]>>).matchedKeywords
                    = calculateScore(calc.job, <<[f EXCEPT !.Type = "any"]>>).matchedKeywords

C11_Witness ==
    /\ calc.stage = "returned"
    /\ \E i, j \in 1..Len(calc.filters) :
          /\ calc.filters[i].Type = "title"
          /\ ~OccursIgnoringCase(calc.job.Title, calc.filters[i].Keyword)
          /\ OccursIgnoringCase(calc.job.Location, calc.filters[i].Keyword)
          /\ calc.filters[j].Type = "negative"
          /\ OccursIgnoringCase(Combined(calc.job), calc.filters[j].Keyword)
          /\ ~Includes(Combined(calc.job), calc.filters[j].Keyword)
    /\ calc.result.matchedKeywords # <<>>

\* the Keywords, as written, of the filters that match, in filter-list order
RECURSIVE KeywordsOfMatching(_, _, _)
KeywordsOfMatching(job, filters, i) ==
    IF i > Len(filters) THEN <<>>
    ELSE (IF i \in Matching(job, filters) THEN <<filters[i].Keyword>> ELSE <<>>)
         \o KeywordsOfMatching(job, filters, i + 1)

\* C12: matchedKeywords holds the Keyword of every matching filter, once per
\* matching filter, in filter-list order and in its original casing
C12_MatchedKeywords ==
    (calc.stage = "returned") =>
        calc.result.matchedKeywords = KeywordsOfMatching(calc.job, calc.filters, 1)

C12_Witness ==
    /\ calc.stage = "returned"
    /\ Len(calc.result.matchedKeywords) = 2
    /\ calc.result.matchedKeywords[1] = <<"J","r">>
    /\ calc.result.matchedKeywords[2] = <<"A","I">>
    /\ Len(calc.filters) = 3

ProcessRan == last.op = "processJobs"

\* a listing with a Title, a Link and a Source
HasTitleLinkSource(job) ==
    /\ job.Title # Undefined /\ Len(job.Title) > 0
    /\ job.Link # Undefined /\ Len(job.Link) > 0
    /\ job.Source # Undefined /\ Len(job.Source) > 0

\* the first listing of the batch that has a Title, a Link and a Source and this Link
FirstWithLink(raw, link) ==
    CHOOSE i \in 1..Len(raw) :
        /\ HasTitleLinkSource(raw[i]) /\ raw[i].Link = link
        /\ \A j \in 1..(i - 1) : ~(HasTitleLinkSource(raw[j]) /\ raw[j].Link = link)

\* C13: with dedupeBy = 'link' no two listings of the output of processJobs
\* have the same Link, and the one emitted for a Link is the first valid
\* listing of the batch with that Link
C13_FirstOfEachLink ==
    (ProcessRan /\ ~last.threw /\ config.dedupeBy = "link") =>
        /\ \A k, l \in 1..Len(processedJobs) :
              k # l => processedJobs[k].Link # processedJobs[l].Link
        /\ \A i \in 1..Len(rawJobs) :
              HasTitleLinkSource(rawJobs[i]) =>
                 \E k \in 1..Len(processedJobs) : processedJobs[k].Link = rawJobs[i].Link
        /\ \A k \in 1..Len(processedJobs) :
              LET first == rawJobs[FirstWithLink(rawJobs, processedJobs[k].Link)]
              IN /\ processedJobs[k].Title = first.Title
                 /\ processedJobs[k].Score = calculateScore(first, ActiveFilters).score

C13_Witness ==
    /\ ProcessRan /\ ~last.threw
    /\ Len(processedJobs) = 1
    /\ processedJobs[1].Score = 0
    /\ \E i \in 1..Len(rawJobs) :
          /\ HasTitleLinkSource(rawJobs[i])
          /\ rawJobs[i].Link = processedJobs[1].Link
          /\ calculateScore(rawJobs[i], ActiveFilters).score > 0

\* C14: for every numeric minScore of a config, processJobs returns and gives
\* each emitted listing Status 'New' when its Score >= minScore and 'Ignore'
\* otherwise
C14_StatusByMinScore ==
    ProcessRan =>
        /\ ~last.threw
        /\ \A k \in 1..Len(processedJobs) :
              processedJobs[k].Status =
                 (IF processedJobs[k].Score >= config.minScore THEN "New" ELSE "Ignore")

\* C19: processJobs emits no listing without a Title, a Link or a Source, and
\* its outcome is the outcome on the batch without those listings
C19_InvalidListingsSkipped ==
    ProcessRan =>
        LET others == SelectSeq(rawJobs, HasTitleLinkSource)
            alone == processJobs(others, ActiveFilters, config, AllOk(Len(others)), 0)
        IN /\ \A k \in 1..Len(processedJobs) : HasTitleLinkSource(processedJobs[k])
           /\ last.threw = alone.threw
           /\ processedJobs = alone.jobs

C19_Witness ==
    /\ ProcessRan /\ ~last.threw
    /\ \E i, j \in 1..Len(rawJobs) :
          /\ i < j
          /\ ~HasTitleLinkSource(rawJobs[i])
          /\ HasTitleLinkSource(rawJobs[j])
          /\ rawJobs[j].Link = rawJobs[i].Link
          /\ \E k \in 1..Len(processedJobs) : processedJobs[k].Title = rawJobs[j].Title

\* C15: no run of runJobSearch fetches its sources and then fails on a check
\* of the config
C15_ConfigErrorsBeforeFetch ==
    ~ /\ last.threw
      /\ \/ last.op \in {"processJobs", "appendJobs"}
            /\ (MissingConfig(config) \/ config.dedupeBy # "link")
         \/ last.op = "sendJobDigest" /\ MissingDigestConfig(config)

\* C16: a config that getConfig returns has a numeric minScore, a topN
\* greater than 0, dedupeBy 'link' and a dateFormat; for other stored values
\* getConfig throws
C16_ConfigValidated ==
    (load.stage = "returned" /\ ~load.result.threw) =>
        /\ load.tab.minScore.kind = "number"
        /\ load.tab.topN.kind = "number"
        /\ load.result.config.topN > 0
        /\ load.result.config.dedupeBy = "link"
        /\ load.result.config.dateFormat # ""

\* C17: two invocations of runJobSearch never interleave their steps on the
\* Jobs sheet, so no Link is appended twice and no listing is emailed twice
C17_RunsDoNotInterleave ==
    /\ \A i, j \in 1..Len(jobs) : i # j => jobs[i].Link # jobs[j].Link
    /\ \A i \in 1..Len(sentCount) : sentCount[i] <= 1

\* a source scrapeJobs fetches and whose fetch succeeds
Fetched(source) ==
    /\ source.SourceName # Empty /\ source.URL # Empty
    /\ source.fetchOk

\* the Links of the items with a link of the fetched sources, in source order
RECURSIVE LinksOfFetched(_, _)
LinksOfFetched(sources, i) ==
    IF i > Len(sources) THEN <<>>
    ELSE (IF Fetched(sources[i])
          THEN [k \in 1..Len(SelectSeq(sources[i].items, LAMBDA it : it.link # Empty)) |->
                   SelectSeq(sources[i].items, LAMBDA it : it.link # Empty)[k].link]
          ELSE <<>>) \o LinksOfFetched(sources, i + 1)

\* C18: a source that fails does not abort scrapeJobs: the result holds the
\* listings of every source that was fetched successfully, in source order
C18_FailedSourceIsolated ==
    (scrape.stage = "returned" /\ Len(scrape.sources) > 0) =>
        /\ ~scrape.result.threw
        /\ [k \in 1..Len(scrape.result.jobs) |-> scrape.result.jobs[k].Link]
              = LinksOfFetched(scrape.sources, 1)

C18_Witness ==
    /\ scrape.stage = "returned"
    /\ Len(scrape.sources) = 3
    /\ ~scrape.sources[1].fetchOk /\ scrape.sources[1].URL # Empty
    /\ Fetched(scrape.sources[2]) /\ Fetched(scrape.sources[3])
    /\ Len(scrape.result.jobs) = 2
    /\ scrape.result.jobs[1].Link # scrape.result.jobs[2].Link

\* C20: calculateScore throws when the listing or the filter list is absent,
\* and for an empty filter list it returns score 0 and no matched keyword
C20_AbsentArgumentsThrow ==
    (calc.stage = "returned") =>
        /\ (calc.job = NoJob \/ calc.filters = NoFilters) => calc.result.threw
        /\ (calc.job # NoJob /\ calc.filters = <<>>) =>
              /\ ~calc.result.threw
              /\ calc.result.score = 0
              /\ calc.result.matchedKeywords = <<>>

C20_Witness ==
    /\ calc.stage = "returned"
    /\ calc.job # NoJob
    /\ calc.filters = NoFilters
    /\ calc.result.threw

\* C21: generateUniqueID called with an undefined type returns 'UNKNOWN-000'
C21_UndefinedTypeIsUnknown ==
    \A k \in 1..Len(ids) :
        ids[k].type = UndefinedType => ids[k].id = <<"UNKNOWN", 0>>

\* C22: any two distinct rows of the Jobs sheet have different IDs
C22_IdsCollisionFree ==
    \A i, j \in 1..Len(jobs) : i # j => jobs[i].ID # jobs[j].ID

\* the rows of the sheet that were there before the step keep their cells,
\* Status and DateNotified excepted when the step is the digest
RowsKept ==
    /\ Len(jobs) >= Len(last.before)
    /\ last.op = "appendJobs" =>
          \A i \in 1..Len(last.before) : jobs[i] = last.before[i]
    /\ DigestRan =>
          /\ Len(jobs) = Len(last.before)
          /\ \A i \in 1..Len(jobs) :
                [jobs[i] EXCEPT !.Status = last.before[i].Status,
                                !.DateNotified = last.before[i].DateNotified] = last.before[i]

\* C23: appendJobs never removes or changes a row, updateNotifiedJobs changes
\* only Status and DateNotified, and a Link that is in the sheet is rejected
\* as a duplicate in every later run
C23_AppendOnlyLedger ==
    /\ RowsKept
    /\ last.op = "appendJobs" =>
          \A i \in (Len(last.before) + 1)..Len(jobs) : jobs[i].Link \notin Links(last.before)

\* the indexes of the valid listings of the batch that are the first with
\* their Link, in input order
RECURSIVE FirstOccurrences(_, _)
FirstOccurrences(raw, i) ==
    IF i > Len(raw) THEN <<>>
    ELSE (IF HasTitleLinkSource(raw[i]) /\ FirstWithLink(raw, raw[i].Link) = i
          THEN <<i>> ELSE <<>>) \o FirstOccurrences(raw, i + 1)

\* C24: the output of processJobs is the valid listings of the batch reduced
\* to the first occurrence of each Link, in input order, each with Snippet
\* '<Title> from <Source>' and an empty DateNotified
C24_OutputInInputOrder ==
    (ProcessRan /\ ~last.threw) =>
        LET first == FirstOccurrences(rawJobs, 1)
        IN /\ Len(processedJobs) = Len(first)
           /\ \A k \in 1..Len(processedJobs) :
                 LET in == rawJobs[first[k]]
                     out == processedJobs[k]
                 IN /\ out.Title = in.Title /\ out.Link = in.Link /\ out.Source = in.Source
                    /\ out.Snippet = in.Title \o <<" ","f","r","o","m"," ">> \o in.Source
                    /\ out.DateNotified = ""

C24_Witness ==
    /\ ProcessRan /\ ~last.threw
    /\ Len(rawJobs) = 3
    /\ Len(processedJobs) = 2
    /\ processedJobs[1].Score < processedJobs[2].Score
    /\ processedJobs[1].Link = rawJobs[1].Link
    /\ processedJobs[2].Link = rawJobs[3].Link
    /\ HasTitleLinkSource(rawJobs[2]) /\ rawJobs[2].Link = rawJobs[1].Link

\* C25: a failure of appendJobs aborts the run: the failing call adds no row,
\* the next step is the return of runJobSearch with no email sent and no row
\* changed, and sendJobDigest only starts after appendJobs returned normally
C25_AppendFailureAborts ==
    [][ /\ (last'.op = "appendJobs" /\ last'.threw) => (jobs' = jobs /\ sentCount' = sentCount)
        /\ (last.op = "appendJobs" /\ last.threw) =>
              (last'.op = "none" /\ jobs' = jobs /\ sentCount' = sentCount)
        /\ last'.op = "sendJobDigest" => (last.op = "appendJobs" /\ ~last.threw) ]_vars

C25_Witness ==
    /\ last.op = "appendJobs" /\ last.threw
    /\ pc = "done"
    /\ ~MissingDigestConfig(config)
    /\ EligibleJobs(jobs, config) # <<>>

\* listing i of the batch is skipped by appendJobs: a required field is
\* missing, or its Link is one the sheet is read to hold, or an earlier
\* complete listing of the batch has its Link
Skipped(before, processed, i) ==
    \/ MissingFields(processed[i])
    \/ processed[i].Link \in getExistingLinks(before)
    \/ \E j \in 1..(i - 1) : ~MissingFields(processed[j]) /\ processed[j].Link = processed[i].Link

\* C26: appendJobs returns the number of rows it added: the sheet grows by
\* the returned count, the count is the number of listings that were not
\* skipped as invalid or duplicate, and a batch of skipped listings only
\* returns 0 and leaves the sheet unchanged
C26_CountIsRowsAdded ==
    (last.op = "appendJobs" /\ ~last.threw) =>
        LET kept == {i \in 1..Len(processedJobs) : ~Skipped(last.before, processedJobs, i)}
        IN /\ Len(jobs) = Len(last.before) + last.count
           /\ \A i \in 1..Len(last.before) : jobs[i] = last.before[i]
           /\ last.count = Cardinality(kept)
           /\ kept = {} => (last.count = 0 /\ jobs = last.before)

\* of an invalid listing, a duplicate and a new listing, one is counted
C26_Witness ==
    /\ last.op = "appendJobs" /\ ~last.threw
    /\ Len(processedJobs) = 2
    /\ last.count = 1
    /\ Len(jobs) = Len(last.before) + 1
    /\ MissingFields(processedJobs[1]) \/ processedJobs[1].Link \in getExistingLinks(last.before)

\* C27: in scrapeJobs a sleep separates every two consecutive fetches, whether
\* the earlier fetch succeeded or failed
C27_PauseBetweenFetches ==
    scrape.stage = "returned" =>
        LET ev == scrape.result.events
        IN \A i, j \in 1..Len(ev) :
              (i < j /\ ev[i] = "fetch" /\ ev[j] = "fetch") =>
                  \E k \in (i + 1)..(j - 1) : ev[k] = "sleep"

\* the listing with its undefined optional fields set to the empty string
Blanked(job) ==
    [f \in DOMAIN job |-> IF f \in OptionalFields /\ job[f] = Undefined THEN Empty ELSE job[f]]

\* C28: an undefined Company, Location or Snippet contributes nothing to
\* matching: the score is the score of the listing with those fields ''
C28_AbsentFieldsMatchNothing ==
    (calc.stage = "returned" /\ ~calc.result.threw) =>
        calc.result.score = calculateScore(Blanked(calc.job), calc.filters).score

\* C29: in every state in which a run leaves the sheet, completed or aborted,
\* a row has Status 'Notified' exactly if its DateNotified is not empty
C29_NotifiedIffDated ==
    pc \in {"done", "idle"} =>
        \A i \in 1..Len(jobs) : (jobs[i].Status = "Notified") <=> (jobs[i].DateNotified # "")

\* row i waits for its digest / row i has been emailed and marked
Waiting(i) == i <= Len(jobs) /\ IsEligible(jobs[i], config)
Notified(i) == i <= Len(jobs) /\ jobs[i].Status = "Notified" /\ sentCount[i] >= 1

\* C30: after finitely many calls of sendJobDigest every eligible row has
\* been emailed and marked, and from then on sendJobDigest returns 0
C30_EveryEligibleNotified ==
    /\ \A i \in 1..MaxSheet : Waiting(i) ~> Notified(i)
    /\ <>[](sendJobDigest(jobs, config, TRUE, 2 * Len(jobs)).emailed = 0)

\* the part of C30 that holds: the calls come to an end with no eligible row
\* left and sendJobDigest returning 0
C30_EveryEligibleMarked ==
    <>[](/\ \A i \in 1..Len(jobs) : ~IsEligible(jobs[i], config)
         /\ sendJobDigest(jobs, config, TRUE, 2 * Len(jobs)).emailed = 0)

====
